---- MODULE Spec2Model ----
(***************************************************************************)
(* Model of src/Dataset/download_multi-view_data.py: the command-line      *)
(* dataset downloader.  One process run is main() -> download_datasets():  *)
(* check_dependencies, directory preparation, the gdown.download_folder    *)
(* call and the verification phase ("audit"), with the try/except of       *)
(* lines 43-65.  The environment (the file system under the output paths,  *)
(* whether gdown can be imported, what the external delegate does) is      *)
(* nondeterministic.  File names are sequences of characters so that       *)
(* str.endswith is computed, not assumed.                                  *)
(***************************************************************************)
EXTENDS Integers, Sequences, FiniteSets, TLC

VARIABLES
    argv,             \* command line of the current run: [url, output], NoArg = option not given
    gdown_installed,  \* environment: can `import gdown` succeed in the current run
    fs,               \* file system: path -> node [kind, top, sub]
    fs0,              \* history: the file system before the first run
    runs,             \* number of process runs started so far
    pc,               \* position of the current run
    folder_url,       \* download_datasets parameter folder_url
    output_dir,       \* download_datasets parameter output_dir
    exit_code,        \* exit status of the process (meaningful once pc = "done")
    termination,      \* "running" | "normal" | "sys_exit" | "uncaught"
    log,              \* messages emitted in the current run (logging and print)
    steps,            \* history: the steps started in the current run, in order
    delegate_calls,   \* history: argument records of gdown.download_folder calls of the current run
    sync_outcome,     \* "none" | "return" | "raise": how the delegate call ended
    makedirs,         \* history: os.makedirs in the current run: "none" | "ok" | "raised"
    listed,           \* history: paths given to os.listdir in the current run
    audited,          \* line 60 was reached: the "Available Datasets" report was emitted
    mat_files,        \* the reported names (line 59)
    mat_count         \* the reported count len(mat_files) (line 60)

vars == <<argv, gdown_installed, fs, fs0, runs, pc, folder_url, output_dir,
          exit_code, termination, log, steps, delegate_calls, sync_outcome,
          makedirs, listed, audited, mat_files, mat_count>>

-----------------------------------------------------------------------------
(* Bounds *)

MaxRuns == 2

-----------------------------------------------------------------------------
(* Strings that the code inspects character by character *)

a_mat     == <<"a", ".", "m", "a", "t">>
b_mat     == <<"b", ".", "m", "a", "t">>
d_mat     == <<"d", ".", "m", "a", "t">>
c_mat     == <<"c", ".", "m", "a", "t">>
e_mat     == <<"e", ".", "m", "a", "t">>
notes_txt == <<"n", "o", "t", "e", "s", ".", "t", "x", "t">>
sub       == <<"s", "u", "b">>

\* the literal '.mat' of line 59
MAT_SUFFIX == <<".", "m", "a", "t">>

\* str.endswith(suffix)
EndsWith(s, suffix) ==
    /\ Len(s) >= Len(suffix)
    /\ SubSeq(s, Len(s) - Len(suffix) + 1, Len(s)) = suffix

-----------------------------------------------------------------------------
(* Command line (main, lines 72-92) *)

\* default of --url (line 80) and of --output (line 87)
DEFAULT_URL    == "https://drive.google.com/drive/folders/1TyiQNOuCH7zn0R55EfxM4mUwB05VsoMf?usp=drive_link"
DEFAULT_OUTPUT == "./dataset"

OtherUrl  == "https://drive.google.com/drive/folders/other"
OtherPath == "/data/mv"
NoArg     == "<not given>"

Urls  == {DEFAULT_URL, OtherUrl}
Paths == {DEFAULT_OUTPUT, OtherPath}

\* the command lines considered: each option given or left to its default
Argvs == [url : {NoArg, OtherUrl}, output : {NoArg, OtherPath}]

\* parser.parse_args(): an option that is not given takes its default
ParseArgs(av) ==
    [url    |-> IF av.url = NoArg THEN DEFAULT_URL ELSE av.url,
     output |-> IF av.output = NoArg THEN DEFAULT_OUTPUT ELSE av.output]

-----------------------------------------------------------------------------
(* File system *)

FileEntry(n) == [name |-> n, kind |-> "file"]
DirEntry(n)  == [name |-> n, kind |-> "dir"]

\* what the remote folder can bring: immediate entries and files inside sub/
RemoteTop == {FileEntry(a_mat), FileEntry(b_mat), FileEntry(notes_txt),
              DirEntry(d_mat), DirEntry(sub)}
RemoteSub == {c_mat, e_mat}

\* a path is absent, a regular file, or a directory with immediate entries
\* `top` and, inside its subdirectory sub/, the files `sub`
AbsentNode   == [kind |-> "absent", top |-> {}, sub |-> {}]
FileNode     == [kind |-> "file", top |-> {}, sub |-> {}]
DirNode(t, s) == [kind |-> "dir", top |-> t, sub |-> s]

InitNodes == {AbsentNode, FileNode, DirNode({}, {}),
              DirNode({FileEntry(a_mat), FileEntry(notes_txt)}, {})}

\* os.path.exists(path): true for a directory and for a regular file
PathExists(node) == node.kind # "absent"

\* os.makedirs(path) on an absent path, when it succeeds
MakeDirs(node) == DirNode({}, {})

\* variant: the best-effort flag left at the delegate's default
DownloadFolderArgs_Strict(url, out) ==
    [url |-> url, output |-> out, quiet |-> FALSE, remaining_ok |-> FALSE]

\* the keyword arguments of the gdown.download_folder call
DownloadFolderArgs(url, out) ==
    [url |-> url, output |-> out, quiet |-> FALSE, remaining_ok |-> TRUE]

\* what the delegate leaves on disk: it only adds entries, under the directory
\* it was given; nothing can be added under a path that is a regular file
DownloadFolderWrites(node, addTop, addSub) ==
    IF node.kind = "file" THEN node
    ELSE LET t == node.top \cup addTop
         IN  DirNode(t, IF DirEntry(sub) \in t THEN node.sub \cup addSub ELSE {})

\* variant: a recursive walk that collects the regular files of the tree
ListDir_Walk(node) ==
    {e.name : e \in {x \in node.top : x.kind = "file"}} \cup node.sub

\* the names os.listdir(path) returns: the immediate entries, of any kind
ListDir(node) == {e.name : e \in node.top}

\* os.listdir returns the names in arbitrary order
RECURSIVE Orders(_)
Orders(S) ==
    IF S = {} THEN {<<>>}
    ELSE UNION {{<<x>> \o t : t \in Orders(S \ {x})} : x \in S}

\* variant: the listing reported without the suffix filter
MatFiles_Unfiltered(names) == names

\* [f for f in os.listdir(output_dir) if f.endswith('.mat')]
IsMat(f) == EndsWith(f, MAT_SUFFIX)
MatFiles(names) == SelectSeq(names, IsMat)

-----------------------------------------------------------------------------
(* Messages *)

Msg(level, text) == [level |-> level, msg |-> text]

MissingDependencyOutput ==
    << Msg("ERROR", "Required dependency 'gdown' is not installed."),
       Msg("PRINT", "Fix: Please install it using the following command:"),
       Msg("PRINT", "    pip install gdown") >>

\* the status of sys.exit(1)
SYS_EXIT_STATUS == 1

\* the except clause of lines 63-65
ExceptOutput ==
    << Msg("ERROR", "Synchronization failed: {e}"),
       Msg("WARNING", "Check your internet connection and verify that the GDrive folder is public.") >>

ConnectOutput ==
    << Msg("INFO", "Connecting to Google Drive remote storage..."),
       Msg("INFO", "Remote URL: {folder_url}") >>

CompleteOutput ==
    << Msg("INFO", "============"),
       Msg("INFO", "Dataset synchronization complete!"),
       Msg("INFO", "Local Storage Path: {abspath(output_dir)}") >>

ReportOutput ==
    << Msg("INFO", "Available Datasets ({len(mat_files)}): {', '.join(mat_files)}"),
       Msg("INFO", "============") >>

-----------------------------------------------------------------------------
(* How a run leaves a step *)

Control(p, code, how) == [pc |-> p, exit_code |-> code, termination |-> how]

\* import gdown succeeded: check_dependencies returns the module (line 17)
OnDependencyPresent == Control("prepare", 0, "running")

\* variant: the messages are printed but the process is not ended
OnDependencyMissing_NoExit == Control("prepare", 0, "running")

\* except ImportError: ... sys.exit(1) (lines 18-22)
OnDependencyMissing == Control("done", SYS_EXIT_STATUS, "sys_exit")

\* an exception raised outside the try block of lines 43-65 reaches the
\* interpreter: traceback, exit status 1
OnUncaughtException == Control("done", 1, "uncaught")

\* variant: the except clause re-raises
OnCaughtException_Reraise == Control("done", 1, "uncaught")

\* variant: the except clause tries the synchronization again
OnCaughtException_Retry == Control("sync", 0, "running")

\* an exception raised inside the try block: the except clause logs and the
\* function, then main, returns: exit status 0
OnCaughtException == Control("done", 0, "normal")

\* the try block ran to its end (line 61): download_datasets and main return
OnTryBlockEnd == Control("done", 0, "normal")

\* where control goes when gdown.download_folder returns: the verification
\* phase, lines 53-61
AfterDelegateReturn == "audit"

-----------------------------------------------------------------------------
(* State *)

PerRunInit ==
    /\ pc = "main"
    /\ folder_url = NoArg
    /\ output_dir = NoArg
    /\ exit_code = 0
    /\ termination = "running"
    /\ log = <<>>
    /\ steps = <<>>
    /\ delegate_calls = <<>>
    /\ sync_outcome = "none"
    /\ makedirs = "none"
    /\ listed = <<>>
    /\ audited = FALSE
    /\ mat_files = <<>>
    /\ mat_count = 0

Init ==
    /\ argv \in Argvs
    /\ gdown_installed \in BOOLEAN
    /\ fs \in [Paths -> InitNodes]
    /\ fs0 = fs
    /\ runs = 1
    /\ PerRunInit

runVars == <<pc, folder_url, output_dir, exit_code, termination, log, steps,
             delegate_calls, sync_outcome, makedirs, listed,
             audited, mat_files, mat_count>>
envVars == <<argv, gdown_installed, fs0, runs>>
auditVars == <<listed, audited, mat_files, mat_count>>

Leave(c) ==
    /\ pc' = c.pc
    /\ exit_code' = c.exit_code
    /\ termination' = c.termination

\* main(): parse the command line and call download_datasets (lines 91-92)
Main ==
    /\ pc = "main"
    /\ LET args == ParseArgs(argv)
       IN  /\ folder_url' = args.url
           /\ output_dir' = args.output
    /\ pc' = "check_dependencies"
    /\ UNCHANGED <<envVars, fs, exit_code, termination, log, steps,
                   delegate_calls, sync_outcome, makedirs, auditVars>>

\* check_dependencies(), import succeeds (lines 15-17)
CheckDependenciesPresent ==
    /\ pc = "check_dependencies"
    /\ gdown_installed
    /\ steps' = Append(steps, "Dependency Check")
    /\ Leave(OnDependencyPresent)
    /\ UNCHANGED <<envVars, fs, folder_url, output_dir, log, delegate_calls,
                   sync_outcome, makedirs, auditVars>>

\* check_dependencies(), ImportError (lines 18-22)
CheckDependenciesMissing ==
    /\ pc = "check_dependencies"
    /\ ~gdown_installed
    /\ steps' = Append(steps, "Dependency Check")
    /\ log' = log \o MissingDependencyOutput
    /\ Leave(OnDependencyMissing)
    /\ UNCHANGED <<envVars, fs, folder_url, output_dir, delegate_calls,
                   sync_outcome, makedirs, auditVars>>

\* variant: an existing output path is removed and created afresh
PrepareExisting_Recreate ==
    /\ pc = "prepare"
    /\ PathExists(fs[output_dir])
    /\ steps' = Append(steps, "Directory Preparation")
    /\ fs' = [fs EXCEPT ![output_dir] = MakeDirs(@)]
    /\ pc' = "sync"
    /\ UNCHANGED <<envVars, folder_url, output_dir, exit_code, termination,
                   log, delegate_calls, sync_outcome, makedirs, auditVars>>

\* lines 36-38 when os.path.exists(output_dir): nothing is done
PrepareExisting ==
    /\ pc = "prepare"
    /\ PathExists(fs[output_dir])
    /\ steps' = Append(steps, "Directory Preparation")
    /\ pc' = "sync"
    /\ UNCHANGED <<envVars, fs, folder_url, output_dir, exit_code, termination,
                   log, delegate_calls, sync_outcome, makedirs, auditVars>>

\* lines 36-38 when the path is absent and os.makedirs succeeds
PrepareCreate ==
    /\ pc = "prepare"
    /\ ~PathExists(fs[output_dir])
    /\ steps' = Append(steps, "Directory Preparation")
    /\ makedirs' = "ok"
    /\ fs' = [fs EXCEPT ![output_dir] = MakeDirs(@)]
    /\ log' = Append(log, Msg("INFO", "Initialized local data directory: {output_dir}"))
    /\ pc' = "sync"
    /\ UNCHANGED <<envVars, folder_url, output_dir, exit_code, termination,
                   delegate_calls, sync_outcome, auditVars>>

\* lines 36-37 when the path is absent and os.makedirs raises OSError (no
\* permission, read-only parent, ...): the call is outside the try block
PrepareCreateFails ==
    /\ pc = "prepare"
    /\ ~PathExists(fs[output_dir])
    /\ steps' = Append(steps, "Directory Preparation")
    /\ makedirs' = "raised"
    /\ Leave(OnUncaughtException)
    /\ UNCHANGED <<envVars, fs, folder_url, output_dir, log, delegate_calls,
                   sync_outcome, auditVars>>

\* lines 40-51: the call of the delegate, common to both of its outcomes.
\* The delegate writes under the path it was given, possibly only part of
\* the remote folder.
CallDelegate ==
    /\ pc = "sync"
    /\ steps' = Append(steps, "Folder Sync")
    /\ LET call == DownloadFolderArgs(folder_url, output_dir)
       IN  /\ delegate_calls' = Append(delegate_calls, call)
           /\ \E addTop \in SUBSET RemoteTop, addSub \in SUBSET RemoteSub :
                 fs' = [fs EXCEPT ![call.output] = DownloadFolderWrites(@, addTop, addSub)]

\* gdown.download_folder returns (also after failures it reports itself)
SyncReturns ==
    /\ CallDelegate
    /\ sync_outcome' = "return"
    /\ log' = log \o ConnectOutput
    /\ pc' = AfterDelegateReturn
    /\ UNCHANGED <<envVars, folder_url, output_dir, exit_code, termination,
                   makedirs, auditVars>>

\* gdown.download_folder raises an Exception: lines 63-65
SyncRaises ==
    /\ CallDelegate
    /\ sync_outcome' = "raise"
    /\ log' = log \o ConnectOutput \o ExceptOutput
    /\ Leave(OnCaughtException)
    /\ UNCHANGED <<envVars, folder_url, output_dir, makedirs, auditVars>>

\* lines 53-61, os.listdir succeeds
AuditLists ==
    /\ pc = "audit"
    /\ fs[output_dir].kind = "dir"
    /\ steps' = Append(steps, "Audit")
    /\ listed' = Append(listed, output_dir)
    /\ \E names \in Orders(ListDir(fs[output_dir])) :
          /\ mat_files' = MatFiles(names)
          /\ mat_count' = Len(MatFiles(names))
    /\ audited' = TRUE
    /\ log' = log \o CompleteOutput \o ReportOutput
    /\ Leave(OnTryBlockEnd)
    /\ UNCHANGED <<envVars, fs, folder_url, output_dir, delegate_calls,
                   sync_outcome, makedirs>>

\* variant: the listing is done after the try block, so its error is not caught
AuditListFails_Uncaught ==
    /\ pc = "audit"
    /\ steps' = Append(steps, "Audit")
    /\ listed' = Append(listed, output_dir)
    /\ log' = log \o CompleteOutput
    /\ Leave(OnUncaughtException)
    /\ UNCHANGED <<envVars, fs, folder_url, output_dir, delegate_calls,
                   sync_outcome, makedirs, audited, mat_files,
                   mat_count>>

\* lines 53-59, os.listdir raises (the path is a regular file, or the
\* directory cannot be read): lines 63-65
AuditListFails ==
    /\ pc = "audit"
    /\ steps' = Append(steps, "Audit")
    /\ listed' = Append(listed, output_dir)
    /\ log' = log \o CompleteOutput \o ExceptOutput
    /\ Leave(OnCaughtException)
    /\ UNCHANGED <<envVars, fs, folder_url, output_dir, delegate_calls,
                   sync_outcome, makedirs, audited, mat_files,
                   mat_count>>

\* the same command is started again, on the file system the earlier runs
\* left; gdown may have been installed or removed in between
Rerun ==
    /\ pc = "done"
    /\ runs < MaxRuns
    /\ runs' = runs + 1
    /\ gdown_installed' \in BOOLEAN
    /\ pc' = "main"
    /\ folder_url' = NoArg
    /\ output_dir' = NoArg
    /\ exit_code' = 0
    /\ termination' = "running"
    /\ log' = <<>>
    /\ steps' = <<>>
    /\ delegate_calls' = <<>>
    /\ sync_outcome' = "none"
    /\ makedirs' = "none"
    /\ listed' = <<>>
    /\ audited' = FALSE
    /\ mat_files' = <<>>
    /\ mat_count' = 0
    /\ UNCHANGED <<argv, fs, fs0>>

Next ==
    \/ Main
    \/ CheckDependenciesPresent
    \/ CheckDependenciesMissing
    \/ PrepareExisting
    \/ PrepareCreate
    \/ PrepareCreateFails
    \/ SyncReturns
    \/ SyncRaises
    \/ AuditLists
    \/ AuditListFails
    \/ Rerun

Spec == Init /\ [][Next]_vars

-----------------------------------------------------------------------------
(* Properties *)

Range(q) == {q[i] : i \in 1..Len(q)}

\* the last four characters of n are '.', 'm', 'a', 't'
HasMatSuffix(n) ==
    /\ Len(n) >= 4
    /\ n[Len(n) - 3] = "."
    /\ n[Len(n) - 2] = "m"
    /\ n[Len(n) - 1] = "a"
    /\ n[Len(n)] = "t"

\* the configuration given at the start of the run: the command-line values,
\* or the defaults
GivenUrl    == IF argv.url = NoArg THEN DEFAULT_URL ELSE argv.url
GivenOutput == IF argv.output = NoArg THEN "./dataset" ELSE argv.output

RunEnded == pc = "done"

StepOrder == <<"Dependency Check", "Directory Preparation", "Folder Sync", "Audit">>

\* C1, as stated: when the download capability is available and the delegate
\* raises, the exception is caught, the run ends with exit code 0 and the
\* audit step (the listing of the output directory) is executed afterwards.
C1_AuditRunsAfterRaise ==
    (RunEnded /\ gdown_installed /\ sync_outcome = "raise") =>
        /\ exit_code = 0
        /\ termination = "normal"
        /\ listed # <<>>
        /\ audited

\* C1, amended: when the download capability is available and the delegate
\* raises, the exception is caught and logged (error, then warning), the run
\* ends normally with exit code 0, and the audit step is NOT executed: the
\* output directory is not listed and no count or names are reported.
C1_RaiseCaughtAuditSkipped ==
    (RunEnded /\ gdown_installed /\ sync_outcome = "raise") =>
        /\ exit_code = 0
        /\ termination = "normal"
        /\ listed = <<>>
        /\ ~audited
        /\ steps = SubSeq(StepOrder, 1, 3)
        /\ Len(log) >= 2
        /\ SubSeq(log, Len(log) - 1, Len(log)) = ExceptOutput

C1_Witness ==
    /\ RunEnded
    /\ gdown_installed
    /\ sync_outcome = "raise"
    /\ fs[output_dir].kind = "dir"
    /\ fs[output_dir].top # {}

\* C2: when gdown cannot be imported, the error naming 'gdown' and the
\* install command are emitted and the process ends with a non-zero exit
\* code; none of the later steps happens in that run: no directory is
\* created, the delegate is not called, nothing is listed or reported.
C2_MissingDependencyStops ==
    (~gdown_installed /\ pc \notin {"main", "check_dependencies"}) =>
        /\ RunEnded
        /\ exit_code # 0
        /\ termination = "sys_exit"
        /\ log = << Msg("ERROR", "Required dependency 'gdown' is not installed."),
                    Msg("PRINT", "Fix: Please install it using the following command:"),
                    Msg("PRINT", "    pip install gdown") >>
        /\ steps = <<"Dependency Check">>
        /\ makedirs = "none"
        /\ (runs = 1 => fs = fs0)
        /\ delegate_calls = <<>>
        /\ listed = <<>>
        /\ ~audited

C2_Witness ==
    /\ ~gdown_installed
    /\ RunEnded
    /\ exit_code = 1
    /\ fs[GivenOutput].kind = "absent"

\* C3, as stated: every run in which the download capability is available
\* ends with exit code 0, whatever happens in directory preparation (a
\* failing directory creation included), folder sync and audit.
C3_ExitZeroWheneverDependencyPresent ==
    (RunEnded /\ gdown_installed) => exit_code = 0

\* C4, as stated: in every run in which the dependency check succeeds, the
\* output path is an existing directory at the moment the audit step lists it.
C4_DirectoryExistsAtAudit ==
    (pc = "audit" /\ gdown_installed) => fs[output_dir].kind = "dir"

\* C5: whenever the audit reports, the reported names are exactly the
\* immediate entries whose name ends in '.mat', each once, and the reported
\* count is their number; a.mat, b.mat, notes.txt gives count 2 with a.mat
\* and b.mat; no matching entry gives count 0 and an empty list.
C5_ReportIsMatEntries ==
    audited =>
        LET names == {e.name : e \in fs[output_dir].top}
            mats  == {n \in names : HasMatSuffix(n)}
        IN  /\ Range(mat_files) = mats
            /\ mat_count = Len(mat_files)
            /\ mat_count = Cardinality(mats)
            /\ (names = {a_mat, b_mat, notes_txt} =>
                    mat_count = 2 /\ Range(mat_files) = {a_mat, b_mat})
            /\ (mats = {} => mat_count = 0 /\ mat_files = <<>>)
            /\ termination = "normal"

C5_Witness ==
    /\ audited
    /\ {e.name : e \in fs[output_dir].top} = {a_mat, b_mat, notes_txt}
    /\ mat_files = <<b_mat, a_mat>>
    /\ mat_count = 2

\* C6: whatever was in an output directory before the first run is still
\* there after any number of runs of the script (the directory is still a
\* directory, every entry is still present), and a run against a directory
\* that already existed creates nothing and, with gdown available, ends with
\* exit code 0.
C6_RerunKeepsExistingFiles ==
    \A p \in Paths :
        fs0[p].kind = "dir" =>
            /\ fs[p].kind = "dir"
            /\ fs0[p].top \subseteq fs[p].top
            /\ fs0[p].sub \subseteq fs[p].sub
            /\ (output_dir = p => makedirs = "none")
            /\ (RunEnded /\ output_dir = p /\ gdown_installed => exit_code = 0)

C6_Witness ==
    /\ runs = 2
    /\ RunEnded
    /\ gdown_installed
    /\ fs0[output_dir].kind = "dir"
    /\ FileEntry(notes_txt) \in fs0[output_dir].top
    /\ steps = StepOrder

\* C7: every call of the delegate gets the source URL and the output
\* directory given at the start of the run, with remaining_ok true; the
\* configuration does not change during the run, and the audit lists the
\* directory the delegate was told to write to.
C7_DelegateGetsGivenConfiguration ==
    /\ \A i \in 1..Len(delegate_calls) :
          /\ delegate_calls[i].url = GivenUrl
          /\ delegate_calls[i].output = GivenOutput
          /\ delegate_calls[i].remaining_ok = TRUE
    /\ (pc # "main" => folder_url = GivenUrl /\ output_dir = GivenOutput)
    /\ \A i \in 1..Len(listed) :
          /\ delegate_calls # <<>>
          /\ listed[i] = delegate_calls[1].output

C7_Witness ==
    /\ argv = [url |-> NoArg, output |-> NoArg]
    /\ Len(delegate_calls) = 1
    /\ delegate_calls[1].url = DEFAULT_URL
    /\ listed = <<"./dataset">>

\* C8: the steps of a run are an initial part of Dependency Check, Directory
\* Preparation, Folder Sync, Audit, each at most once and in this order; the
\* delegate is called at most once per run and the directory is listed at
\* most once.
C8_StepsInOrderOnce ==
    /\ Len(steps) <= Len(StepOrder)
    /\ steps = SubSeq(StepOrder, 1, Len(steps))
    /\ Len(delegate_calls) <= 1
    /\ Len(listed) <= 1
    /\ Len(delegate_calls) = (IF Len(steps) >= 3 THEN 1 ELSE 0)

C8_Witness ==
    /\ RunEnded
    /\ steps = StepOrder
    /\ Len(delegate_calls) = 1

\* C9: the audit step changes nothing in the file system, and it ends the
\* run normally with exit code 0 whatever it finds and whether or not the
\* listing succeeds.
C9_AuditObservational ==
    [][pc = "audit" =>
          /\ fs' = fs
          /\ pc' = "done"
          /\ exit_code' = 0
          /\ termination' = "normal"]_vars

C9_Witness ==
    /\ RunEnded
    /\ listed # <<>>
    /\ ~audited
    /\ exit_code = 0
    /\ fs[output_dir].kind = "dir"
    /\ fs[output_dir].top # {}

\* the regular files whose name ends in '.mat' anywhere under the directory
MatFilesInTree(node) ==
    {e.name : e \in {x \in node.top : x.kind = "file" /\ HasMatSuffix(x.name)}}
        \cup {n \in node.sub : HasMatSuffix(n)}

\* C10: the audit reports the immediate entries only: a file inside a
\* subdirectory is never reported, an immediate entry ending in '.mat' is
\* reported and counted whether it is a file or a directory.
C10_ImmediateEntriesOnly ==
    audited =>
        LET node == fs[output_dir]
        IN  /\ \A n \in node.sub : n \notin Range(mat_files)
            /\ \A e \in node.top : HasMatSuffix(e.name) => e.name \in Range(mat_files)
            /\ mat_count = Cardinality({e \in node.top : HasMatSuffix(e.name)})

\* a report whose count differs from the number of '.mat' files in the tree
C10_Witness ==
    /\ audited
    /\ fs[output_dir].sub = {c_mat, e_mat}
    /\ DirEntry(d_mat) \in fs[output_dir].top
    /\ d_mat \in Range(mat_files)
    /\ c_mat \notin Range(mat_files)
    /\ mat_count # Cardinality(MatFilesInTree(fs[output_dir]))

====
